---- MODULE Spec2Model ----
(***************************************************************************)
(* Model of the light component of the game system                         *)
(* (gamesys/src/gamesys/components/comp_light.cpp).                        *)
(*                                                                         *)
(* A LightWorld holds a dmArray<Light*> m_Lights.  The engine calls the    *)
(* component callbacks one at a time (the game object update is single     *)
(* threaded), so every callback is one atomic action.  What the callbacks  *)
(* read from the host (instance transforms, the descriptor behind a        *)
(* resource slot, the result of GetSocket and of each Post) is either      *)
(* state changed by host actions or an input drawn with \E.                *)
(*                                                                         *)
(* Indices: the code indexes m_Lights from 0, sequences here start at 1;   *)
(* code index k is sequence index k + 1.                                   *)
(***************************************************************************)
EXTENDS Integers, Sequences, FiniteSets

\* ---------------------------------------------------------------- bounds
\* Number of Light objects that can be allocated at the same time.
MaxLights == 3

\* ------------------------------------------------------------- constants
\* OffsetCapacity(16) in CompLightCreate.
CapacityStep == 16
\* DM_SNPRINTF(buf + sizeof(SetLight), 9, ...): room for the id text and NUL.
IdBufSize == 9

\* ------------------------------------------------------------ value sets
\* Addresses `new Light` can return.
Addresses == 1..MaxLights

\* Game object instances and resource slots, and the (m_Instance, m_Resource)
\* pairs the engine hands to CompLightCreate.
Instances == {"go1", "go2"}
Slots == {"res1", "res2"}
CreateParams ==
    { [ m_Instance |-> "go1", m_Resource |-> "res1" ],
      [ m_Instance |-> "go2", m_Resource |-> "res2" ] }

\* The transforms (a Point3 and a Quat) an instance can have.
Transforms ==
    { [ position |-> <<0, 0, 0>>, rotation |-> <<0, 0, 0, 1>> ],
      [ position |-> <<1, 2, 3>>, rotation |-> <<0, 1, 0, 0>> ] }

\* The light descriptors a resource slot can point to (LightDesc fields read
\* by CompLightUpdate).
LightDescs ==
    [ lamp |-> [ m_Id |-> "lamp", m_Type |-> "POINT", m_Intensity |-> 10,
                 m_Color |-> <<1, 1, 1>>, m_Range |-> 50, m_Decay |-> 2,
                 m_ConeAngle |-> 45, m_PenumbraAngle |-> 5, m_DropOff |-> 1 ],
      beam |-> [ m_Id |-> "beam", m_Type |-> "SPOT", m_Intensity |-> 20,
                 m_Color |-> <<1, 0, 0>>, m_Range |-> 80, m_Decay |-> 3,
                 m_ConeAngle |-> 30, m_PenumbraAngle |-> 7, m_DropOff |-> 4 ] ]
DescNames == {"lamp", "beam"}

\* dmMessage results and callback results.
RESULT_OK == "RESULT_OK"
RESULT_SOCKET_NOT_FOUND == "RESULT_SOCKET_NOT_FOUND"
GetSocketResults == {RESULT_OK, RESULT_SOCKET_NOT_FOUND}
CREATE_RESULT_OK == "CREATE_RESULT_OK"
UPDATE_RESULT_OK == "UPDATE_RESULT_OK"
UPDATE_RESULT_UNKNOWN_ERROR == "UPDATE_RESULT_UNKNOWN_ERROR"
NoResult == "none"

\* Messages the engine can hand to CompLightOnMessage.
Messages == {"enable", "disable"}

VARIABLES
    worldAlive,     \* the LightWorld of *params.m_World exists
    m_Lights,       \* LightWorld::m_Lights, the elements in index order
    m_Capacity,     \* capacity of m_Lights
    heap,           \* allocated Light objects: address -> [m_Instance, m_LightResource]
    userData,       \* *params.m_UserData of the components the engine holds
    transform,      \* the position and rotation of each instance
    resource,       \* the LightDesc* each resource slot points to
    call,           \* the last step: the callback and its arguments and inputs
    result,         \* what that callback returned
    posted,         \* the messages that callback posted, in order
    prevLights,     \* m_Lights when that step began
    prevCapacity    \* m_Capacity when that step began

vars == << worldAlive, m_Lights, m_Capacity, heap, userData, transform, resource,
           call, result, posted, prevLights, prevCapacity >>

host == << transform, resource >>

\* dmGameObject::GetPosition and dmGameObject::GetRotation.
GetPosition(instance) == transform[instance].position

GetRotation(instance) == transform[instance].rotation

\* ------------------------------------------------------------- dmArray
\* The dmArray operations the callbacks use (dlib/array.h).
Size(arr) == Len(arr)

Full(arr, capacity) == Len(arr) = capacity

OffsetCapacity(capacity, n) == capacity + n

Push(arr, x) == Append(arr, x)

\* dmArray::EraseSwap: the last element is copied over element i and the array
\* shrinks by one.
EraseSwap(arr, i) ==
    [ j \in 1..(Len(arr) - 1) |-> IF j = i THEN arr[Len(arr)] ELSE arr[j] ]

\* -------------------------------------------------------- the id text
\* dlib's 32 bit string hash of the descriptor ids used here.
dmHashString32(id) ==
    CASE id = "lamp" -> 439041101
      [] id = "beam" -> 48879

HexDigit(d) ==
    << "0", "1", "2", "3", "4", "5", "6", "7",
       "8", "9", "A", "B", "C", "D", "E", "F" >>[d + 1]

\* printf("%X"): upper case hexadecimal, no leading zeros.
RECURSIVE FormatHex(_)
FormatHex(n) ==
    IF n < 16 THEN << HexDigit(n) >>
    ELSE Append(FormatHex(n \div 16), HexDigit(n % 16))

\* DM_SNPRINTF(buffer, size, "%X", n): at most size - 1 characters are kept.
Snprintf(size, n) ==
    LET text == FormatHex(n)
    IN  IF Len(text) <= size - 1 THEN text ELSE SubSeq(text, 1, size - 1)

\* ------------------------------------------------------------- the heap
\* Addresses no Light object lives at.
FreeAddresses == Addresses \ DOMAIN heap

\* new Light(instance, resource) at address a.
NewLight(a, instance, light_resource) ==
    [ x \in (DOMAIN heap) \cup {a} |->
        IF x = a THEN [ m_Instance |-> instance, m_LightResource |-> light_resource ]
        ELSE heap[x] ]

\* delete light.
DeleteLight(light) == [ x \in (DOMAIN heap) \ {light} |-> heap[x] ]

\* What every step records about itself.
NoArgs == << >>

Called(op, args, res, msgs) ==
    /\ call' = [ op |-> op, args |-> args ]
    /\ result' = res
    /\ posted' = msgs
    /\ prevLights' = m_Lights
    /\ prevCapacity' = m_Capacity

\* ------------------------------------------------------------ callbacks
TypeOK ==
    /\ worldAlive \in BOOLEAN
    /\ m_Lights \in Seq(Addresses)
    /\ m_Capacity \in Nat
    /\ DOMAIN heap \subseteq Addresses
    /\ userData \subseteq Addresses
    /\ transform \in [Instances -> Transforms]
    /\ resource \in [Slots -> DescNames]

\* Before the engine has created the component world: the instances are at
\* the origin and every resource slot holds the lamp descriptor.
Init ==
    /\ worldAlive = FALSE
    /\ m_Lights = << >>
    /\ m_Capacity = 0
    /\ heap = << >>
    /\ userData = {}
    /\ transform = [ instance \in Instances |->
                        [ position |-> <<0, 0, 0>>, rotation |-> <<0, 0, 0, 1>> ] ]
    /\ resource = [ slot \in Slots |-> "lamp" ]
    /\ call = [ op |-> "none", args |-> NoArgs ]
    /\ result = NoResult
    /\ posted = << >>
    /\ prevLights = << >>
    /\ prevCapacity = 0

\* *params.m_World = new LightWorld: an empty array.
CompLightNewWorld ==
    /\ ~worldAlive
    /\ worldAlive' = TRUE
    /\ m_Lights' = << >>
    /\ m_Capacity' = 0
    /\ Called("CompLightNewWorld", NoArgs, CREATE_RESULT_OK, << >>)
    /\ UNCHANGED << heap, userData, host >>

\* delete light_world.  The engine deletes the component worlds of a
\* collection after it has destroyed the collection's components, so the
\* array is empty by then.
CompLightDeleteWorld ==
    /\ worldAlive
    /\ Size(m_Lights) = 0
    /\ worldAlive' = FALSE
    /\ m_Lights' = << >>
    /\ m_Capacity' = 0
    /\ userData' = {}
    /\ Called("CompLightDeleteWorld", NoArgs, CREATE_RESULT_OK, << >>)
    /\ UNCHANGED << heap, host >>

\* The capacity CompLightCreate pushes into.
CreateCapacity(arr, capacity) ==
    IF Full(arr, capacity) THEN OffsetCapacity(capacity, CapacityStep) ELSE capacity

\* The array after CompLightCreate has pushed the new light.
CreateLights(arr, light) == Push(arr, light)

CompLightCreate(params) ==
    /\ worldAlive
    /\ \E light \in FreeAddresses :
        /\ m_Capacity' = CreateCapacity(m_Lights, m_Capacity)
        /\ heap' = NewLight(light, params.m_Instance, params.m_Resource)
        /\ m_Lights' = CreateLights(m_Lights, light)
        /\ userData' = userData \cup {light}
        /\ Called("CompLightCreate", [ light |-> light ], CREATE_RESULT_OK, << >>)
    /\ UNCHANGED << worldAlive, host >>

\* A search that reports the front of the array whenever the light is found.
FindLightFront(arr, light) ==
    IF \E i \in 1..Size(arr) : arr[i] = light THEN 1 ELSE 0

\* The loop of CompLightDestroy: the first index holding the light, 0 if none.
FindLight(arr, light) ==
    IF \E i \in 1..Size(arr) : arr[i] = light
    THEN CHOOSE i \in 1..Size(arr) :
            /\ arr[i] = light
            /\ \A j \in 1..(i - 1) : arr[j] # light
    ELSE 0

\* A destroy that drops the last element, whichever light was asked for.
DestroyLightsPop(arr, light) == SubSeq(arr, 1, Len(arr) - 1)

\* The array after CompLightDestroy.
DestroyLights(arr, light) ==
    IF FindLight(arr, light) # 0 THEN EraseSwap(arr, FindLight(arr, light)) ELSE arr

\* The engine destroys a component it holds; its user data is the Light that
\* CompLightCreate stored there.
CompLightDestroy(light) ==
    /\ worldAlive
    /\ light \in userData
    /\ FindLight(m_Lights, light) # 0
    /\ m_Lights' = DestroyLights(m_Lights, light)
    /\ heap' = DeleteLight(light)
    /\ userData' = userData \ {light}
    /\ Called("CompLightDestroy", [ light |-> light ], CREATE_RESULT_OK, << >>)
    /\ UNCHANGED << worldAlive, m_Capacity, host >>

\* --------------------------------------------------------- CompLightUpdate
\* A buffer whose cone angle was copied from the penumbra angle.
SetLightMessageCopied(light) ==
    LET instance == heap[light].m_Instance
        light_desc == LightDescs[resource[heap[light].m_LightResource]]
    IN  [ light |-> light,
          socket |-> "@render",
          message_id |-> "set_light",
          m_Id |-> Snprintf(IdBufSize, dmHashString32(light_desc.m_Id)),
          m_Type |-> light_desc.m_Type,
          m_Intensity |-> light_desc.m_Intensity,
          m_Color |-> light_desc.m_Color,
          m_Range |-> light_desc.m_Range,
          m_Decay |-> light_desc.m_Decay,
          m_ConeAngle |-> light_desc.m_PenumbraAngle,
          m_PenumbraAngle |-> light_desc.m_PenumbraAngle,
          m_DropOff |-> light_desc.m_DropOff,
          m_Position |-> GetPosition(instance),
          m_Rotation |-> GetRotation(instance) ]

\* The buffer CompLightUpdate fills for one light: the SetLight message and,
\* behind it, the id text.  `light` tags the post with the Light it was made
\* for; it is not part of the buffer.
SetLightMessage(light) ==
    LET instance == heap[light].m_Instance
        light_desc == LightDescs[resource[heap[light].m_LightResource]]
    IN  [ light |-> light,
          socket |-> "@render",
          message_id |-> "set_light",
          m_Id |-> Snprintf(IdBufSize, dmHashString32(light_desc.m_Id)),
          m_Type |-> light_desc.m_Type,
          m_Intensity |-> light_desc.m_Intensity,
          m_Color |-> light_desc.m_Color,
          m_Range |-> light_desc.m_Range,
          m_Decay |-> light_desc.m_Decay,
          m_ConeAngle |-> light_desc.m_ConeAngle,
          m_PenumbraAngle |-> light_desc.m_PenumbraAngle,
          m_DropOff |-> light_desc.m_DropOff,
          m_Position |-> GetPosition(instance),
          m_Rotation |-> GetRotation(instance) ]

\* A loop that stops one element early (i < Size() - 1).
RECURSIVE UpdateLoopSkipLast(_, _, _, _)
UpdateLoopSkipLast(arr, i, postResult, out) ==
    IF i >= Size(arr) THEN [ result |-> UPDATE_RESULT_OK, posted |-> out ]
    ELSE IF postResult[i] # RESULT_OK
         THEN [ result |-> UPDATE_RESULT_UNKNOWN_ERROR, posted |-> out ]
         ELSE UpdateLoopSkipLast(arr, i + 1, postResult,
                                 Append(out, SetLightMessage(arr[i])))

\* A loop that logs a failed post and goes on with the next light, reporting
\* the error at the end.
RECURSIVE UpdateLoopContinue(_, _, _, _)
UpdateLoopContinue(arr, i, postResult, out) ==
    IF i > Size(arr) THEN [ result |-> UPDATE_RESULT_OK, posted |-> out ]
    ELSE IF postResult[i] # RESULT_OK
         THEN [ result |-> UPDATE_RESULT_UNKNOWN_ERROR,
                posted |-> UpdateLoopContinue(arr, i + 1, postResult, out).posted ]
         ELSE UpdateLoopContinue(arr, i + 1, postResult,
                                 Append(out, SetLightMessage(arr[i])))

\* The for loop of CompLightUpdate from index i on: `out` are the messages
\* posted so far, postResult[i] is what dmMessage::Post returns for index i.
RECURSIVE UpdateLoop(_, _, _, _)
UpdateLoop(arr, i, postResult, out) ==
    IF i > Size(arr) THEN [ result |-> UPDATE_RESULT_OK, posted |-> out ]
    ELSE IF postResult[i] # RESULT_OK
         THEN [ result |-> UPDATE_RESULT_UNKNOWN_ERROR, posted |-> out ]
         ELSE UpdateLoop(arr, i + 1, postResult, Append(out, SetLightMessage(arr[i])))

\* What the posts of one update over n lights can return: all succeed (k is
\* n + 1), or the post for index k is the first to fail.  No post is made
\* after a failed one, so the results behind k are never drawn.
PostOutcomes(n) ==
    { [ i \in 1..n |-> IF i = k THEN RESULT_SOCKET_NOT_FOUND ELSE RESULT_OK ] :
        k \in 1..(n + 1) }

\* A body that does not look at the result of GetSocket.
UpdateBodyUnchecked(arr, getSocketResult, postResult) ==
    UpdateLoop(arr, 1, postResult, << >>)

\* The body of CompLightUpdate: the socket lookup, then the loop.
UpdateBody(arr, getSocketResult, postResult) ==
    IF getSocketResult # RESULT_OK
    THEN [ result |-> UPDATE_RESULT_UNKNOWN_ERROR, posted |-> << >> ]
    ELSE UpdateLoop(arr, 1, postResult, << >>)

CompLightUpdate(getSocketResult, postResult) ==
    /\ worldAlive
    /\ LET r == UpdateBody(m_Lights, getSocketResult, postResult)
       IN  Called("CompLightUpdate",
                  [ getSocketResult |-> getSocketResult, postResult |-> postResult ],
                  r.result, r.posted)
    /\ UNCHANGED << worldAlive, m_Lights, m_Capacity, heap, userData, host >>

\* A message handler that drops the last light on "disable".
CompLightOnMessageDrop(message) ==
    /\ worldAlive
    /\ m_Lights' = IF message = "disable" /\ Len(m_Lights) > 0
                   THEN SubSeq(m_Lights, 1, Len(m_Lights) - 1)
                   ELSE m_Lights
    /\ Called("CompLightOnMessage", [ message |-> message ], UPDATE_RESULT_OK, << >>)
    /\ UNCHANGED << worldAlive, m_Capacity, heap, userData, host >>

CompLightOnMessage(message) ==
    /\ worldAlive
    /\ Called("CompLightOnMessage", [ message |-> message ], UPDATE_RESULT_OK, << >>)
    /\ UNCHANGED << worldAlive, m_Lights, m_Capacity, heap, userData, host >>

\* ------------------------------------------------------------- the host
\* The game object system moves or turns an instance; the resource system
\* reloads the descriptor behind a resource slot.
HostStep == Called("host", NoArgs, NoResult, << >>)

SetTransform(instance, t) ==
    /\ transform[instance] # t
    /\ transform' = [ transform EXCEPT ![instance] = t ]
    /\ HostStep
    /\ UNCHANGED << worldAlive, m_Lights, m_Capacity, heap, userData, resource >>

ReloadResource(slot, desc) ==
    /\ resource[slot] # desc
    /\ resource' = [ resource EXCEPT ![slot] = desc ]
    /\ HostStep
    /\ UNCHANGED << worldAlive, m_Lights, m_Capacity, heap, userData, transform >>

\* ---------------------------------------------------------- specification
Next ==
    \/ CompLightNewWorld
    \/ CompLightDeleteWorld
    \/ \E params \in CreateParams : CompLightCreate(params)
    \/ \E light \in Addresses : CompLightDestroy(light)
    \/ \E getSocketResult \in GetSocketResults,
          postResult \in PostOutcomes(Size(m_Lights)) :
            CompLightUpdate(getSocketResult, postResult)
    \/ \E message \in Messages : CompLightOnMessage(message)
    \/ \E instance \in Instances, t \in Transforms : SetTransform(instance, t)
    \/ \E slot \in Slots, desc \in DescNames : ReloadResource(slot, desc)

Spec == Init /\ [][Next]_vars

\* ================================================================ claims
\* Helpers for the claims: what the last CompLightUpdate was given.
IsUpdate == call.op = "CompLightUpdate"

SocketFound == call.args.getSocketResult = RESULT_OK

AllPostsSucceed ==
    \A i \in DOMAIN call.args.postResult : call.args.postResult[i] = RESULT_OK

\* The sequence index of the first post that fails (code index k is this
\* minus one).
FirstFailedPost ==
    CHOOSE k \in DOMAIN call.args.postResult :
        /\ call.args.postResult[k] # RESULT_OK
        /\ \A j \in 1..(k - 1) : call.args.postResult[j] = RESULT_OK

\* C1: when the "@render" socket is found and every post succeeds, an update
\* posts exactly one set_light message per light of the list, in index order,
\* none for a light that is no longer a component, and returns
\* UPDATE_RESULT_OK.
C1_UpdatePostsOnePerLight ==
    (IsUpdate /\ SocketFound /\ AllPostsSucceed) =>
        /\ result = UPDATE_RESULT_OK
        /\ Len(posted) = Len(m_Lights)
        /\ \A i \in 1..Len(posted) :
            /\ posted[i].light = m_Lights[i]
            /\ posted[i].light \in userData
            /\ posted[i].message_id = "set_light"
            /\ posted[i].socket = "@render"

\* C1 witness: a successful update over at least two lights whose list order
\* is not the order of their addresses.
C1_Witness ==
    /\ IsUpdate /\ SocketFound /\ AllPostsSucceed
    /\ Len(m_Lights) >= 2
    /\ Len(posted) >= 2
    /\ posted[1].light > posted[2].light

\* C2: while the world exists its list holds exactly the lights created in it
\* and not yet destroyed, each once, so its size is creates minus destroys
\* (the number of components the engine holds).
C2_ListIsLiveLights ==
    worldAlive =>
        /\ { m_Lights[i] : i \in 1..Len(m_Lights) } = userData
        /\ \A i, j \in 1..Len(m_Lights) : m_Lights[i] = m_Lights[j] => i = j
        /\ Len(m_Lights) = Cardinality(userData)
        /\ DOMAIN heap = userData

\* C2 witness: a destroy that left at least two lights, the first of them not
\* the first created (the list was reordered by an earlier removal).
C2_Witness ==
    /\ call.op = "CompLightDestroy"
    /\ Len(m_Lights) >= 2
    /\ Len(prevLights) = Len(m_Lights) + 1
    /\ m_Lights[1] = prevLights[Len(prevLights)]

\* C3: every message of an update carries the position and rotation of the
\* light's instance and the fields of the descriptor behind the light's
\* resource slot as they are at that update.
C3_MessageCarriesCurrentValues ==
    IsUpdate =>
        \A i \in 1..Len(posted) :
            LET light == posted[i].light
                instance == heap[light].m_Instance
                desc == LightDescs[resource[heap[light].m_LightResource]]
            IN  /\ posted[i].m_Position = transform[instance].position
                /\ posted[i].m_Rotation = transform[instance].rotation
                /\ posted[i].m_Type = desc.m_Type
                /\ posted[i].m_Intensity = desc.m_Intensity
                /\ posted[i].m_Color = desc.m_Color
                /\ posted[i].m_Range = desc.m_Range
                /\ posted[i].m_Decay = desc.m_Decay
                /\ posted[i].m_ConeAngle = desc.m_ConeAngle
                /\ posted[i].m_PenumbraAngle = desc.m_PenumbraAngle
                /\ posted[i].m_DropOff = desc.m_DropOff

\* C3 witness: an update that posted for a light whose instance was moved and
\* whose descriptor was swapped since the world was set up, next to a light
\* with the original values.
C3_Witness ==
    /\ IsUpdate
    /\ Len(posted) >= 2
    /\ posted[1].m_Position = <<1, 2, 3>>
    /\ posted[1].m_Type = "SPOT"
    /\ posted[2].m_Position = <<0, 0, 0>>
    /\ posted[2].m_Type = "POINT"

\* C4: when the "@render" socket is not found, an update returns
\* UPDATE_RESULT_UNKNOWN_ERROR, posts nothing and leaves the list as it was.
C4_NoSocketNoPost ==
    (IsUpdate /\ ~SocketFound) =>
        /\ result = UPDATE_RESULT_UNKNOWN_ERROR
        /\ posted = << >>
        /\ m_Lights = prevLights

\* C4 witness: an update without socket over a list of at least two lights.
C4_Witness ==
    /\ IsUpdate /\ ~SocketFound
    /\ Len(m_Lights) >= 2

\* C5: when the post for the light at index k fails, the update returns
\* UPDATE_RESULT_UNKNOWN_ERROR, the messages of the lights before k have been
\* posted, no message of a light behind k is posted, and the list is as it
\* was.
C5_FailedPostStopsUpdate ==
    (IsUpdate /\ SocketFound /\ ~AllPostsSucceed) =>
        /\ result = UPDATE_RESULT_UNKNOWN_ERROR
        /\ Len(posted) = FirstFailedPost - 1
        /\ \A i \in 1..Len(posted) : posted[i].light = m_Lights[i]
        /\ m_Lights = prevLights

\* C5 witness: the post of the second of three lights failed.
C5_Witness ==
    /\ IsUpdate /\ SocketFound /\ ~AllPostsSucceed
    /\ Len(m_Lights) = 3
    /\ FirstFailedPost = 2
    /\ Len(posted) = 1

\* The index the destroyed light had in the list.
DestroyedIndex == CHOOSE k \in 1..Len(prevLights) : prevLights[k] = call.args.light

\* C6: a destroy removes exactly its light by swap-erase: the list is one
\* shorter, the last element has taken the removed light's index, every other
\* light is at its index, the light is freed and CREATE_RESULT_OK is returned.
C6_DestroySwapErases ==
    call.op = "CompLightDestroy" =>
        /\ \E k \in 1..Len(prevLights) : prevLights[k] = call.args.light
        /\ Len(m_Lights) = Len(prevLights) - 1
        /\ DestroyedIndex < Len(prevLights) =>
                m_Lights[DestroyedIndex] = prevLights[Len(prevLights)]
        /\ \A j \in 1..Len(m_Lights) :
                j # DestroyedIndex => m_Lights[j] = prevLights[j]
        /\ \A j \in 1..Len(m_Lights) : m_Lights[j] # call.args.light
        /\ call.args.light \notin DOMAIN heap
        /\ result = CREATE_RESULT_OK

\* C6 witness: the first of three lights was destroyed.
C6_Witness ==
    /\ call.op = "CompLightDestroy"
    /\ Len(prevLights) = 3
    /\ DestroyedIndex = 1

\* C7: an update and a message leave the list as it was (the lights, their
\* order, the capacity), and a message returns UPDATE_RESULT_OK and posts
\* nothing.
C7_UpdateAndMessageKeepList ==
    /\ call.op \in {"CompLightUpdate", "CompLightOnMessage"} =>
        /\ m_Lights = prevLights
        /\ m_Capacity = prevCapacity
    /\ call.op = "CompLightOnMessage" =>
        /\ result = UPDATE_RESULT_OK
        /\ posted = << >>

\* C7 witness: a "disable" message arrived while the list held lights.
C7_Witness ==
    /\ call.op = "CompLightOnMessage"
    /\ call.args.message = "disable"
    /\ Len(m_Lights) >= 2
    /\ m_Capacity = CapacityStep

====
